---- MODULE Spec2Model ----
(***************************************************************************)
(* Model of the chart / map rendering adapter (CardRenderer) and of the    *)
(* GuiQueryEditor markup exercised by its unit test.                       *)
(*                                                                         *)
(* JavaScript runs each call and each DOM event handler to completion, so  *)
(* every CardRenderer call and every event handler is one action.          *)
(***************************************************************************)
EXTENDS Integers, Sequences, FiniteSets, TLC

\* ------------------------------------------------------------------ bounds
MaxKey == 5          \* x values are drawn from the subsets of 1..MaxKey
MaxSizeUnits == 8    \* canvas sizes are 0, SizeStep, ..., MaxSizeUnits * SizeStep
MaxSeries == 3       \* number of series handed to lineAreaBar
MaxEvents == 3       \* mouse / map events per behaviour
MaxMaps == 2         \* pin_map calls that create a map, per behaviour
MaxBreakouts == 2    \* breakouts of the query handed to GuiQueryEditor

SizeStep == 50

MaxColors == 2       \* length of the colour list returned for a card

Null == "null"       \* JavaScript null / undefined, for string-valued fields
None == <<>>         \* JavaScript null / undefined, for any other field
Some(v) == <<v>>     \* a value of a field that may be null

\* --------------------------------------------------------- program constants
MIN_PIXELS_PER_TICK == [x |-> 100, y |-> 30]
BAR_PADDING_RATIO == "0.2"
DEFAULT_INTERPOLATION == "linear"
D3DefaultTicks == <<10>>    \* d3.svg.axis: tickArguments_ = [10]

\* ------------------------------------------------------------------ state
VARIABLES
    props,          \* what the caller hands to the renderer: element, card, data, callbacks
    canvas,         \* the dc.js chart built in the element, None before there is one
    trace,          \* the steps the CardRenderer call took, in order
    onRenderCalls,  \* the arguments of the calls of onRender, in order
    hoverCalls,     \* onHoverChange calls: how many, and the arguments of the last
    mouse,          \* mouse events on chart marks: how many, and the last
    gmaps,          \* pin_map: the maps created, the element's listeners, the callbacks' calls
    editor          \* GuiQueryEditor: the query and the rendered controls

chartVars == <<props, canvas, trace, onRenderCalls, hoverCalls, mouse>>
vars == <<props, canvas, trace, onRenderCalls, hoverCalls, mouse, gmaps, editor>>

\* ------------------------------------------------------------ JS arithmetic
\* Math.round(a / b) for a >= 0, b > 0 (round half up)
MathRound(a, b) == (2 * a + b) \div (2 * b)

\* (a / b) < c in JavaScript for a, b >= 0: a / 0 is Infinity or NaN, and both
\* compare false
QuotLess(a, b, c) == b > 0 /\ a < c * b

\* ------------------------------------------------------------------- axes
\* ticks: the numeric arguments of axis.ticks(...); tickInterval: the d3.time
\* interval passed before the count on a time axis
NewAxis ==
    [ticks |-> D3DefaultTicks, tickInterval |-> Null, tickValues |-> None,
     tickFormat |-> Null]

\* numTicks.length != null ? numTicks[0] : numTicks
NumTicks(axis) == axis.ticks[1]

adjustTicksIfNeeded(axis, axisSize, minPixelsPerTick) ==
    LET numTicks == NumTicks(axis)
    IN  IF QuotLess(axisSize, numTicks, minPixelsPerTick)
        THEN [axis EXCEPT !.ticks = <<MathRound(axisSize, minPixelsPerTick)>>]
        ELSE axis

\* i % Math.round(len / numTicks) === 0 for a 0-based index i; len / 0 is
\* Infinity for len > 0, and i % Infinity is i
IsVisibleIndex(i, len, numTicks) ==
    IF numTicks = 0 THEN i = 0 ELSE i % MathRound(len, numTicks) = 0

RECURSIVE FilterVisible(_, _, _)
\* xValues.filter((v, i) => i % keyInterval === 0), from 1-based position p on
FilterVisible(xValues, numTicks, p) ==
    IF p > Len(xValues) THEN <<>>
    ELSE (IF IsVisibleIndex(p - 1, Len(xValues), numTicks)
          THEN <<xValues[p]>> ELSE <<>>)
         \o FilterVisible(xValues, numTicks, p + 1)

\* ------------------------------------------------------------------ charts
NoChart == None

\* capabilities of the dc.js chart types used here
HasInterpolate(dcType) == dcType = "lineChart"
HasRenderArea(dcType) == dcType = "lineChart"
HasBarPadding(dcType) == dcType = "barChart"
HasRightYAxis(dcType) == dcType = "compositeChart"

getDcjsChartType(cardType) ==
    CASE cardType = "pie"  -> "pieChart"
      [] cardType = "line" -> "lineChart"
      [] cardType = "area" -> "lineChart"
      [] cardType = "bar"  -> "barChart"
      [] OTHER             -> "barChart"

\* a || b
Or(a, b) == IF a # Null THEN a ELSE b

applyChartLegend(card) ==
    LET settings == card.visualization_settings
    IN  IF card.display = "pie" /\ settings.pie # None
        THEN settings.pie[1].legend_enabled
        ELSE IF settings.chart # None THEN settings.chart[1].legend_enabled
        ELSE FALSE

\* dc[chartType](parent), before any configuration
NewDcChart(chartType) ==
    [dcType |-> chartType, width |-> 0, height |-> 0, legend |-> FALSE,
     transitionDuration |-> 750, group |-> None, stack |-> <<>>,
     ordinalColors |-> None, colors |-> None, children |-> <<>>,
     useRightYAxis |-> FALSE,
     brushOn |-> TRUE, interpolate |-> Null, renderArea |-> None,
     barPadding |-> Null, centerBar |-> None, rangeBandPadding |-> Null,
     xAxisLabel |-> Null, yAxisLabel |-> Null,
     renderVerticalGridLines |-> FALSE, renderHorizontalGridLines |-> FALSE,
     elasticY |-> FALSE, x |-> None, xUnits |-> Null,
     xAxis |-> NewAxis, yAxis |-> NewAxis,
     rightYAxis |-> IF HasRightYAxis(chartType) THEN Some(NewAxis) ELSE None,
     margins |-> "default", listeners |-> {}, hoverHandler |-> Null,
     hoverBound |-> FALSE,
     renders |-> 0]

initializeChart(card, element, chartType) ==
    [NewDcChart(chartType) EXCEPT
        !.width = element.width, !.height = element.height,
        !.legend = applyChartLegend(card),
        !.transitionDuration = 0]

\* the interval computeTimeseriesTicksInterval returns (computed outside this file)
TimeseriesTicksInterval == [interval |-> "month", count |-> 1]

\* cols[0].display_name
DisplayName(cols) == IF Len(cols) >= 1 THEN cols[1].display_name ELSE Null

\* getFriendlyName(cols[1]) (defined outside this file)
getFriendlyName(cols) == IF Len(cols) >= 2 THEN cols[2].display_name ELSE Null

\* d3.time[unit + "s"] is defined (d3.time.quarters is added by this file)
D3TimeHas(unit) ==
    unit \in {"second", "minute", "hour", "day", "week", "month", "quarter", "year"}

\* d3.extent of the (sorted) x values
Extent(xValues) ==
    IF xValues = <<>> THEN <<>> ELSE <<xValues[1], xValues[Len(xValues)]>>

applyChartTimeseriesXAxis(chart, card, cols, xValues) ==
    LET settings == card.visualization_settings
        interval == TimeseriesTicksInterval
        labelled ==
            IF settings.xAxis.labels_enabled
            THEN [chart EXCEPT
                    !.xAxisLabel = Or(settings.xAxis.title_text, DisplayName(cols)),
                    !.renderVerticalGridLines = settings.xAxis.gridLine_enabled,
                    !.xAxis.tickFormat =
                        IF cols[1].unit # Null THEN "formatValue" ELSE "multi",
                    !.xAxis.tickInterval = interval.interval,
                    !.xAxis.ticks = <<interval.count>>]
            ELSE [chart EXCEPT !.xAxis.ticks = <<0>>]
        scaled == [labelled EXCEPT
                    !.x = Some([scale |-> "time", domain |-> Extent(xValues)])]
    IN  IF cols[1].unit # Null /\ D3TimeHas(cols[1].unit)
        THEN [scaled EXCEPT !.xUnits = cols[1].unit]
        ELSE scaled

applyChartOrdinalXAxis(chart, card, cols, xValues) ==
    LET settings == card.visualization_settings
        ticked == adjustTicksIfNeeded([chart.xAxis EXCEPT !.ticks = <<Len(xValues)>>],
                                      chart.width, MIN_PIXELS_PER_TICK.x)
        numTicks == NumTicks(ticked)
        valued ==
            IF numTicks < Len(xValues)
            THEN [ticked EXCEPT !.tickValues = Some(FilterVisible(xValues, numTicks, 1))]
            ELSE ticked
        labelled ==
            IF settings.xAxis.labels_enabled
            THEN [chart EXCEPT
                    !.xAxisLabel = Or(settings.xAxis.title_text, DisplayName(cols)),
                    !.renderVerticalGridLines = settings.xAxis.gridLine_enabled,
                    !.xAxis = [valued EXCEPT !.tickFormat = "formatValue"]]
            ELSE [chart EXCEPT !.xAxis.ticks = <<0>>, !.xAxis.tickFormat = ""]
    IN  [labelled EXCEPT
            !.x = Some([scale |-> "ordinal", domain |-> xValues]),
            !.xUnits = "ordinal"]

applyChartYAxis(chart, card, cols) ==
    LET settings == card.visualization_settings
    IN  IF settings.yAxis.labels_enabled
        THEN [chart EXCEPT
                !.yAxisLabel = Or(settings.yAxis.title_text, getFriendlyName(cols)),
                !.renderHorizontalGridLines = TRUE,
                !.elasticY = TRUE,
                !.yAxis = adjustTicksIfNeeded(@, chart.height, MIN_PIXELS_PER_TICK.y),
                !.rightYAxis =
                    IF @ # None
                    THEN Some(adjustTicksIfNeeded(@[1], chart.height, MIN_PIXELS_PER_TICK.y))
                    ELSE @]
        ELSE [chart EXCEPT
                !.yAxis.ticks = <<0>>,
                !.rightYAxis = IF @ # None THEN Some([@[1] EXCEPT !.ticks = <<0>>]) ELSE @]

\* the labels the ordinal x axis displays: the tick values when set, else the
\* whole domain of the scale
DisplayedTicks(chart) ==
    IF chart.xAxis.tickValues # None THEN chart.xAxis.tickValues[1]
    ELSE chart.x[1].domain

applyChartLineBarSettings(chart, card, chartType) ==
    [chart EXCEPT
        !.brushOn = FALSE,
        !.interpolate =
            IF HasInterpolate(chart.dcType)
            THEN (IF card.visualization_settings.line.step
                  THEN "step" ELSE DEFAULT_INTERPOLATION)
            ELSE @,
        !.renderArea =
            IF HasRenderArea(chart.dcType) THEN Some(chartType = "area") ELSE @,
        !.barPadding =
            IF HasBarPadding(chart.dcType) THEN BAR_PADDING_RATIO ELSE @]

\* chart.on("renderlet", ...): the handler that binds the mouse listeners to
\* the marks; onHoverChange names the function it was given
applyChartTooltips(chart, onHoverChange) ==
    [chart EXCEPT !.listeners = @ \cup {"renderlet"},
                  !.hoverHandler = onHoverChange]

\* chart.render() with transitionDuration 0: the SVG is rebuilt and the
\* renderlet handlers run before render returns
Render(chart) ==
    [chart EXCEPT !.renders = @ + 1,
                  !.hoverBound = "renderlet" \in chart.listeners]

\* --------------------------------------------------- post-render styling
\* one entry of the record of what a CardRenderer call did, in order
Step(op, a, b) == [op |-> op, a |-> a, b |-> b]
SetAttribute(el, name) == Step("setAttribute", el, name)
Caught(el) == Step("caught", el, "TypeError")

\* customizer(element)(attrName, attrValue): nothing when attrValue is falsy,
\* a TypeError on element.length when the element is null
Customize(el, present, name, value) ==
    IF value = Null THEN [threw |-> FALSE, steps |-> <<>>]
    ELSE IF ~present THEN [threw |-> TRUE, steps |-> <<>>]
    ELSE [threw |-> FALSE, steps |-> <<SetAttribute(el, name)>>]

\* an exception that leaves the function: the steps after it do not happen
Threw(steps) == \E i \in 1..Len(steps) : steps[i].op = "throw"
UpToThrow(steps) ==
    IF Threw(steps)
    THEN SubSeq(steps, 1, CHOOSE i \in 1..Len(steps) :
                            /\ steps[i].op = "throw"
                            /\ \A j \in 1..(i - 1) : steps[j].op # "throw")
    ELSE steps

\* try { customizer(svg.select(el)[0][0]); first; second } catch (e) {}
LabelStep(el, present, color, fontSize) ==
    LET first == Customize(el, present, "fill", color)
        second == Customize(el, present, "font-size", fontSize)
    IN  IF first.threw THEN <<Caught(el)>>
        ELSE IF second.threw THEN first.steps \o <<Caught(el)>>
        ELSE first.steps \o second.steps

\* faulty variant: the grid-line block without its try/catch
GridStep_NoCatch(el, present, lineWidth, lineColor) ==
    IF ~present THEN <<Step("throw", el, "TypeError")>>
    ELSE Customize(el, TRUE, "stroke-width", lineWidth).steps
         \o Customize(el, TRUE, "style", lineColor).steps

\* try { customizer(svg.select(el)[0][0].children); ... } catch (e) {}:
\* reading .children of null throws before any attribute is set
GridStep(el, present, lineWidth, lineColor) ==
    IF ~present THEN <<Caught(el)>>
    ELSE Customize(el, TRUE, "stroke-width", lineWidth).steps
         \o Customize(el, TRUE, "style", lineColor).steps

StylingSteps(card, svg) ==
    LET x == card.visualization_settings.xAxis
        y == card.visualization_settings.yAxis
    IN  LabelStep(".x-axis-label", svg.xLabel, x.title_color, x.title_font_size)
        \o LabelStep(".y-axis-label", svg.yLabel, y.title_color, y.title_font_size)
        \o GridStep(".grid-line.vertical", svg.vGrid, x.gridLineWidth, x.gridLineColor)
        \o GridStep(".grid-line.horizontal", svg.hGrid, y.gridLineWidth, y.gridLineColor)

\* faulty variant: the margins are adjusted but the chart is not rendered again
lineAndBarOnRender_NoRerender(chart, card, svg) ==
    [chart |-> [chart EXCEPT !.listeners = @ \cup {"renderlet.lineAndBarOnRender"},
                             !.margins = "fitted"],
     steps |-> <<Step("lineAndBarOnRender", "", "")>>
               \o StylingSteps(card, svg)
               \o <<Step("on", "renderlet.lineAndBarOnRender", ""),
                    Step("margins", "", "")>>]

\* lineAndBarOnRender(chart, card): the chart it leaves and the steps it took.
\* The .axis.x and .axis.y groups measured for the margins are drawn by every
\* render of a line, bar or composite chart, so reading them does not fail.
lineAndBarOnRender(chart, card, svg) ==
    LET registered == [chart EXCEPT
                        !.listeners = @ \cup {"renderlet.lineAndBarOnRender"},
                        !.margins = "fitted"]
        styling == StylingSteps(card, svg)
    IN  IF Threw(styling)
        THEN [chart |-> chart,
              steps |-> <<Step("lineAndBarOnRender", "", "")>> \o UpToThrow(styling)]
        ELSE [chart |-> Render(registered),
              steps |-> <<Step("lineAndBarOnRender", "", "")>>
                        \o styling
                        \o <<Step("on", "renderlet.lineAndBarOnRender", ""),
                             Step("margins", "", ""),
                             Step("render", "", "")>>]

\* --------------------------------------------------------- CardRenderer
\* investigate the response and determine if the dimension is a timeseries;
\* firstVal is the kind of value in rows[0][0], "none" when there is no row
dimensionIsTimeseries(result) ==
    LET hasDateField == Len(result.cols) > 0 /\ result.cols[1].base_type = "DateField"
        isDateFirstVal == /\ result.firstVal # "none"
                          /\ result.firstVal # "number"
                          /\ result.firstVal = "date"
    IN  hasDateField \/ isDateFirstVal

\* faulty variant: accepts a result of a single column
TooFewColumns_OffByOne(result) == Len(result.cols) < 1

\* validation: result.cols.length < 2
TooFewColumns(result) == Len(result.cols) < 2

\* faulty variant: an area chart of several series becomes a composite chart
IsSingleChart_IgnoresArea(chartType, series) == Len(series) = 1

\* isStacked || series.length === 1
IsSingleChart(chartType, series) == chartType = "area" \/ Len(series) = 1

\* colors[index % colors.length], for a 0-based index
SeriesColor(colors, index) == colors[(index % Len(colors)) + 1]

\* yAxisSplit.length > 1 && yAxisSplit[1].includes(index)
OnRightYAxis(yAxisSplit, index) ==
    Len(yAxisSplit) > 1 /\ index \in yAxisSplit[2]

\* the single (possibly stacked) chart of lineAreaBar
SingleChart(element, chartType, series, colors) ==
    LET card == series[1].card
        base == [initializeChart(card, element, getDcjsChartType(card.display))
                    EXCEPT !.group = Some(0),
                           !.stack = [i \in 1..(Len(series) - 1) |-> i]]
    IN  [applyChartLineBarSettings(base, card, chartType)
            EXCEPT !.ordinalColors = Some(colors)]

\* one sub-chart of the composite chart of lineAreaBar, for a 0-based index
SubChart(chartType, series, colors, yAxisSplit, index) ==
    LET card == series[1].card
        sub == [NewDcChart(getDcjsChartType(card.display))
                    EXCEPT !.group = Some(index),
                           !.colors = Some(SeriesColor(colors, index)),
                           !.useRightYAxis = OnRightYAxis(yAxisSplit, index)]
        set == applyChartLineBarSettings(sub, card, chartType)
    IN  IF HasBarPadding(set.dcType)
        THEN [set EXCEPT !.barPadding = BAR_PADDING_RATIO, !.centerBar = Some(FALSE)]
        ELSE set

CompositeChart(element, chartType, series, colors, yAxisSplit) ==
    [initializeChart(series[1].card, element, "compositeChart") EXCEPT
        !.children = [i \in 1..Len(series) |->
                        SubChart(chartType, series, colors, yAxisSplit, i - 1)],
        !.listeners = @ \cup {"renderlet.groupedbar"},
        !.rangeBandPadding = IF chartType = "bar" THEN BAR_PADDING_RATIO ELSE "1"]

\* the result of CardRenderer.lineAreaBar(element, chartType, props): the chart,
\* the steps taken and the calls of onRender
lineAreaBar(element, chartType, p) ==
    LET series == p.series
        card == series[1].card
        result == series[1].data
        isTimeseries == dimensionIsTimeseries(result)
        built == IF IsSingleChart(chartType, series)
                 THEN SingleChart(element, chartType, series, p.colors)
                 ELSE CompositeChart(element, chartType, series, p.colors, p.yAxisSplit)
        xAxed == IF isTimeseries
                 THEN applyChartTimeseriesXAxis(built, card, result.cols, p.xValues)
                 ELSE applyChartOrdinalXAxis(built, card, result.cols, p.xValues)
        yAxed == applyChartYAxis(xAxed, card, result.cols)
        tipped == [applyChartTooltips(yAxed, "lineAreaBar") EXCEPT !.brushOn = FALSE]
        rendered == Render(tipped)
        post == lineAndBarOnRender(rendered, card, p.svg)
        before == <<Step("initializeChart", built.dcType, ""), Step("render", "", "")>>
    IN  IF TooFewColumns(result)
        THEN [chart |-> None, steps |-> <<>>, onRender |-> <<>>]
        ELSE IF Threw(post.steps)
        THEN [chart |-> Some(post.chart), steps |-> before \o post.steps, onRender |-> <<>>]
        ELSE [chart |-> Some(post.chart),
              steps |-> before \o post.steps
                        \o (IF p.onRender THEN <<Step("onRender", "", "")>> ELSE <<>>),
              onRender |-> IF p.onRender THEN <<p.yAxisSplit>> ELSE <<>>]

NoHover == [count |-> 0, last |-> None]
NoMouse == [count |-> 0, last |-> None]

CallLineAreaBar(chartType) ==
    /\ props.fn = chartType
    /\ trace = <<>> /\ canvas = None
    /\ LET r == lineAreaBar(props.element, chartType, props)
       IN  /\ canvas' = r.chart
           /\ trace' = <<Step("call", chartType, "")>> \o r.steps \o <<Step("return", "", "")>>
           /\ onRenderCalls' = onRenderCalls \o r.onRender
    /\ UNCHANGED <<props, hoverCalls, mouse, gmaps, editor>>

\* CardRenderer.bar / line / area
Bar == CallLineAreaBar("bar")
Line == CallLineAreaBar("line")
Area == CallLineAreaBar("area")

\* CardRenderer.pie(element, { card, data, onHoverChange })
pie(element, p) ==
    LET card == p.series[1].card
        built == [initializeChart(card, element, getDcjsChartType(card.display))
                    EXCEPT !.group = Some(0),
                           !.colors = Some(card.visualization_settings.pie[1].colors)]
    IN  Render(applyChartTooltips(built, "onHoverChange"))

Pie ==
    /\ props.fn = "pie"
    /\ trace = <<>> /\ canvas = None
    /\ canvas' = Some(pie(props.element, props))
    /\ trace' = <<Step("call", "pie", ""), Step("initializeChart", "pieChart", ""),
                  Step("render", "", ""), Step("return", "", "")>>
    /\ UNCHANGED <<props, onRenderCalls, hoverCalls, mouse, gmaps, editor>>

\* ------------------------------------------------------------ hover events
Notification(e, d, seriesIndex) == [e |-> e, d |-> d, seriesIndex |-> seriesIndex]

\* faulty variant: tooltips on lines are not disabled
LineAreaBarHover_KeepsLine(onHoverChange, e, d, seriesIndex) ==
    IF onHoverChange THEN <<[e |-> e, d |-> d, seriesIndex |-> seriesIndex]>> ELSE <<>>

\* the function lineAreaBar hands to applyChartTooltips
LineAreaBarHover(onHoverChange, e, d, seriesIndex) ==
    IF onHoverChange
    THEN <<Notification(IF e # Null /\ e = "line" THEN Null ELSE e, d, seriesIndex)>>
    ELSE <<>>

\* the function `handler` names, called with (e, d, seriesIndex): the calls of
\* the caller's onHoverChange it makes
CallHoverHandler(handler, onHoverChange, e, d, seriesIndex) ==
    IF handler = "lineAreaBar"
    THEN LineAreaBarHover(onHoverChange, e, d, seriesIndex)
    ELSE IF onHoverChange THEN <<Notification(e, d, seriesIndex)>> ELSE <<>>

\* the mousemove listener of applyChartTooltips; the handler lineAreaBar
\* passes is always defined, the caller's own may not be
OnMouseMove(handler, onHoverChange, el, d, seriesIndex) ==
    IF handler = "lineAreaBar" \/ onHoverChange
    THEN CallHoverHandler(handler, onHoverChange, el, d, Some(seriesIndex))
    ELSE <<>>

\* the mouseleave listener of applyChartTooltips
OnMouseLeave(handler, onHoverChange) ==
    IF handler = "lineAreaBar" \/ onHoverChange
    THEN CallHoverHandler(handler, onHoverChange, Null, Null, None)
    ELSE <<>>

Notify(calls) ==
    IF calls = <<>> THEN hoverCalls
    ELSE [count |-> hoverCalls.count + Len(calls), last |-> Some(calls[Len(calls)])]

MarkClasses == {"bar", "dot", "area", "line", "pie-slice", "features"}
Data == {"d1", "d2"}

MouseMove(el, d, seriesIndex) ==
    /\ canvas # None
    /\ canvas[1].hoverBound
    /\ mouse.count < MaxEvents
    /\ hoverCalls' = Notify(OnMouseMove(canvas[1].hoverHandler, props.onHoverChange,
                                        el, d, seriesIndex))
    /\ mouse' = [count |-> mouse.count + 1,
                 last |-> Some([type |-> "mousemove", el |-> el, d |-> d,
                                seriesIndex |-> Some(seriesIndex)])]
    /\ UNCHANGED <<props, canvas, trace, onRenderCalls, gmaps, editor>>

MouseLeave(el) ==
    /\ canvas # None
    /\ canvas[1].hoverBound
    /\ mouse.count < MaxEvents
    /\ hoverCalls' = Notify(OnMouseLeave(canvas[1].hoverHandler, props.onHoverChange))
    /\ mouse' = [count |-> mouse.count + 1,
                 last |-> Some([type |-> "mouseleave", el |-> el, d |-> Null,
                                seriesIndex |-> None])]
    /\ UNCHANGED <<props, canvas, trace, onRenderCalls, gmaps, editor>>

\* ---------------------------------------------------------------- pin_map
\* gmaps.maps: the google.maps.Map objects created in the element, oldest first;
\* gmaps.listeners: the 'cardrenderer-card-resized' listeners of the element,
\* each naming the map it closes over; gmaps.outcome: how the last call ended
NoMaps ==
    [maps |-> <<>>, listeners |-> <<>>, style |-> [height |-> None, width |-> None],
     settings |-> None, outcome |-> "none",
     updateMapCenter |-> [count |-> 0, last |-> None],
     updateMapZoom |-> [count |-> 0, last |-> None],
     fired |-> [center_changed |-> 0, zoom_changed |-> 0],
     events |-> 0, lastEvent |-> None]

MapSettingNames ==
    {"latitude_dataset_col_index", "longitude_dataset_col_index",
     "latitude_source_table_field_id", "longitude_source_table_field_id"}

\* how pin_map ends for the settings vs.map: a silent return, a thrown string,
\* or "created" when it goes on to build the map
PinMapOutcome(vsmap) ==
    IF vsmap.latitude_dataset_col_index = Null \/ vsmap.longitude_dataset_col_index = Null
    THEN "return"
    ELSE IF vsmap.latitude_source_table_field_id = Null
            \/ vsmap.longitude_source_table_field_id = Null
    THEN "Map ERROR: latitude and longitude column indices must be specified"
    ELSE IF vsmap.latitude_dataset_col_index = Null
            \/ vsmap.longitude_dataset_col_index = Null
    THEN "Map ERROR: unable to find specified latitude / longitude columns in source table"
    ELSE "created"

\* faulty variant: 'resize' is not triggered after the map is configured
NewMap_NoResize(vsmap) ==
    [zoom |-> vsmap.zoom, center |-> <<vsmap.center_latitude, vsmap.center_longitude>>,
     scrollwheel |-> FALSE, overlayMapTypes |-> <<>>,
     listeners |-> {"center_changed", "zoom_changed"},
     resizes |-> 0,
     cardResizedSince |-> 0]

\* new google.maps.Map(element, mapOptions) with the tile overlay pushed, the
\* two listeners added and 'resize' triggered once
NewMap(vsmap) ==
    [zoom |-> vsmap.zoom, center |-> <<vsmap.center_latitude, vsmap.center_longitude>>,
     scrollwheel |-> FALSE,
     overlayMapTypes |-> <<[latitude_source_table_field_id |-> vsmap.latitude_source_table_field_id,
                            longitude_source_table_field_id |-> vsmap.longitude_source_table_field_id,
                            latitude_dataset_col_index |-> vsmap.latitude_dataset_col_index,
                            longitude_dataset_col_index |-> vsmap.longitude_dataset_col_index]>>,
     listeners |-> {"center_changed", "zoom_changed"},
     resizes |-> 1,
     cardResizedSince |-> 0]

\* CardRenderer.pin_map(element, card, updateMapCenter, updateMapZoom)
pin_map(vsmap, size) ==
    /\ Len(gmaps.maps) < MaxMaps
    /\ LET outcome == PinMapOutcome(vsmap)
       IN  gmaps' =
             IF outcome = "created"
             THEN [gmaps EXCEPT
                    !.maps = Append(@, NewMap(vsmap)),
                    !.listeners = Append(@, Len(gmaps.maps) + 1),
                    !.style = [height |-> IF size.height # None THEN size.height ELSE @.height,
                               width |-> IF size.width # None THEN size.width ELSE @.width],
                    !.settings = Some(vsmap), !.outcome = outcome,
                    !.lastEvent = None]
             ELSE [gmaps EXCEPT !.settings = Some(vsmap), !.outcome = outcome,
                                !.lastEvent = None]
    /\ UNCHANGED <<chartVars, editor>>

\* the user pans map m: the map fires center_changed
CenterChanged(m, lat, lng) ==
    /\ m \in 1..Len(gmaps.maps)
    /\ gmaps.events < MaxEvents
    /\ <<lat, lng>> # gmaps.maps[m].center
    /\ LET moved == [gmaps.maps[m] EXCEPT !.center = <<lat, lng>>]
           calls == IF "center_changed" \in moved.listeners
                    THEN <<moved.center>> ELSE <<>>
       IN  gmaps' = [gmaps EXCEPT
                      !.maps[m] = moved,
                      !.updateMapCenter =
                          IF calls = <<>> THEN @
                          ELSE [count |-> @.count + 1, last |-> Some(calls[1])],
                      !.fired.center_changed = @ + 1,
                      !.events = @ + 1,
                      !.lastEvent = Some([type |-> "center_changed", map |-> m])]
    /\ UNCHANGED <<chartVars, editor>>

\* the user zooms map m: the map fires zoom_changed
ZoomChanged(m, z) ==
    /\ m \in 1..Len(gmaps.maps)
    /\ gmaps.events < MaxEvents
    /\ z # gmaps.maps[m].zoom
    /\ LET zoomed == [gmaps.maps[m] EXCEPT !.zoom = z]
           calls == IF "zoom_changed" \in zoomed.listeners
                    THEN <<zoomed.zoom>> ELSE <<>>
       IN  gmaps' = [gmaps EXCEPT
                      !.maps[m] = zoomed,
                      !.updateMapZoom =
                          IF calls = <<>> THEN @
                          ELSE [count |-> @.count + 1, last |-> Some(calls[1])],
                      !.fired.zoom_changed = @ + 1,
                      !.events = @ + 1,
                      !.lastEvent = Some([type |-> "zoom_changed", map |-> m])]
    /\ UNCHANGED <<chartVars, editor>>

\* the number of the element's listeners that trigger 'resize' on map m
ResizeListeners(listeners, m) ==
    Cardinality({i \in 1..Len(listeners) : listeners[i] = m})

\* a 'cardrenderer-card-resized' event on the element: every listener added
\* by a pin_map call runs
CardResized ==
    /\ gmaps.events < MaxEvents
    /\ gmaps' = [gmaps EXCEPT
                  !.maps = [m \in 1..Len(@) |->
                              [@[m] EXCEPT
                                 !.resizes = @ + ResizeListeners(gmaps.listeners, m),
                                 !.cardResizedSince = @ + 1]],
                  !.events = @ + 1,
                  !.lastEvent = Some([type |-> "cardrenderer-card-resized", map |-> 0])]
    /\ UNCHANGED <<chartVars, editor>>

\* --------------------------------------------------------- GuiQueryEditor
\* fields of the ORDERS table of the sample database fixture
OrdersFields == {"Total", "Tax", "Subtotal", "Discount"}
Aggregations == {"count", "sum", "avg"}

NewQuery == [aggregations |-> <<>>, breakouts |-> <<>>, filters |-> <<>>]

\* faulty variant: no 'add' control once the query has a breakout
GuiQueryEditor_SingleBreakout(query) ==
    [addIcons |-> 1 + 1 + (IF query.breakouts = <<>> THEN 1 ELSE 0),
     closeIcons |-> Len(query.breakouts),
     texts |-> IF query.breakouts = <<>> THEN {"Add a grouping"}
               ELSE {query.breakouts[i] : i \in 1..Len(query.breakouts)}]

\* the controls GuiQueryEditor renders for a query on a table: one 'add' control
\* in the filter section, one after the aggregations, and one after the
\* breakouts for a further grouping; one 'close' control per breakout; the
\* breakouts' field names, or the placeholder when there is none
GuiQueryEditor(query) ==
    [addIcons |-> 1 + 1 + 1,
     closeIcons |-> Len(query.breakouts),
     texts |-> IF query.breakouts = <<>> THEN {"Add a grouping"}
               ELSE {query.breakouts[i] : i \in 1..Len(query.breakouts)}]

\* query.aggregate([a])
Aggregate(a) ==
    /\ editor.rendered = None
    /\ editor.query.aggregations = <<>>
    /\ editor' = [editor EXCEPT !.query.aggregations = Append(@, a)]
    /\ UNCHANGED <<chartVars, gmaps>>

\* query.breakout(["field", f, null])
Breakout(f) ==
    /\ editor.rendered = None
    /\ Len(editor.query.breakouts) < MaxBreakouts
    /\ \A i \in 1..Len(editor.query.breakouts) : editor.query.breakouts[i] # f
    /\ editor' = [editor EXCEPT !.query.breakouts = Append(@, f)]
    /\ UNCHANGED <<chartVars, gmaps>>

\* render(<GuiQueryEditor query={query} ... />)
RenderEditor ==
    /\ editor.rendered = None
    /\ editor.query.aggregations # <<>>
    /\ editor' = [editor EXCEPT !.rendered = Some(GuiQueryEditor(editor.query))]
    /\ UNCHANGED <<chartVars, gmaps>>

\* ------------------------------------------------------------------ inputs
Sizes == {u * SizeStep : u \in 0..MaxSizeUnits}

RECURSIVE SortedSeq(_)
\* the keys of dimension.group().all(): distinct and ascending
SortedSeq(S) ==
    IF S = {} THEN <<>>
    ELSE LET m == CHOOSE x \in S : \A y \in S : x <= y
         IN  <<m>> \o SortedSeq(S \ {m})

XValueLists == {SortedSeq(S) : S \in SUBSET (1..MaxKey)}

AxisSettings ==
    {[labels_enabled |-> FALSE, title_text |-> Null, gridLine_enabled |-> FALSE,
      title_color |-> Null, title_font_size |-> Null,
      gridLineWidth |-> Null, gridLineColor |-> Null],
     [labels_enabled |-> TRUE, title_text |-> "Title", gridLine_enabled |-> TRUE,
      title_color |-> "#333", title_font_size |-> "14",
      gridLineWidth |-> "2", gridLineColor |-> "#eee"],
     [labels_enabled |-> TRUE, title_text |-> Null, gridLine_enabled |-> TRUE,
      title_color |-> Null, title_font_size |-> "14",
      gridLineWidth |-> Null, gridLineColor |-> "#eee"]}

PlainAxis == CHOOSE a \in AxisSettings : a.labels_enabled /\ a.title_text = Null

Card(display, xAxis, yAxis) ==
    [display |-> display,
     visualization_settings |->
        [xAxis |-> xAxis, yAxis |-> yAxis, line |-> [step |-> FALSE],
         chart |-> Some([legend_enabled |-> FALSE]),
         pie |-> IF display = "pie"
                 THEN Some([legend_enabled |-> TRUE, colors |-> <<1, 2>>])
                 ELSE None]]

Col(base_type, unit, name) ==
    [base_type |-> base_type, unit |-> unit, display_name |-> name]

\* query results by their columns and the kind of their first value
Results ==
    {[cols |-> <<Col("TextField", Null, "Category")>>, firstVal |-> "text"],
     [cols |-> <<Col("TextField", Null, "Category"), Col("IntegerField", Null, "Count")>>,
      firstVal |-> "text"],
     [cols |-> <<Col("DateField", "month", "Created At"), Col("IntegerField", Null, "Count")>>,
      firstVal |-> "date"],
     [cols |-> <<Col("IntegerField", Null, "Quantity"), Col("IntegerField", Null, "Count")>>,
      firstVal |-> "number"]}

Series(n, card, result) == [i \in 1..n |-> [card |-> card, data |-> result]]

\* what computeSplit can return for n series: all of them on one axis, or two
\* non-empty parts (0-based series indices)
Splits(n) ==
    {<<0..(n - 1)>>}
    \cup {<<L, (0..(n - 1)) \ L>> : L \in (SUBSET (0..(n - 1))) \ {{}, 0..(n - 1)}}

ColorLists == {[i \in 1..k |-> i] : k \in 1..MaxColors}

AllPresent == [xLabel |-> TRUE, yLabel |-> TRUE, vGrid |-> TRUE, hGrid |-> TRUE]
SvgStates == [xLabel : BOOLEAN, yLabel : BOOLEAN, vGrid : BOOLEAN, hGrid : BOOLEAN]

Props(fn, element, series, colors, yAxisSplit, xValues, svg, onHoverChange, onRender) ==
    [fn |-> fn, element |-> element, series |-> series, colors |-> colors,
     yAxisSplit |-> yAxisSplit, xValues |-> xValues, svg |-> svg,
     onHoverChange |-> onHoverChange, onRender |-> onRender]

\* the calls of bar / line / area handed to the renderer
RenderInputs(p) ==
    \E fn \in {"bar", "line", "area"}, n \in 1..MaxSeries, xa \in AxisSettings,
       ya \in AxisSettings, result \in Results, colors \in ColorLists,
       svg \in SvgStates, onRender \in BOOLEAN :
        \E split \in Splits(n) :
            p = Props(fn, [width |-> 300, height |-> 200],
                      Series(n, Card(fn, xa, ya), result),
                      colors, split, <<1, 2, 3, 4>>, svg, TRUE, onRender)

\* the charts whose marks receive mouse events
HoverInputs(p) ==
    \E fn \in {"bar", "line", "area", "pie"}, n \in 1..2, result \in Results,
       onHoverChange \in BOOLEAN :
        p = Props(fn, [width |-> 300, height |-> 200],
                  Series(n, Card(fn, PlainAxis, PlainAxis), result),
                  <<1, 2>>, <<0..(n - 1)>>, <<1, 2, 3, 4>>, AllPresent,
                  onHoverChange, FALSE)

\* charts about to have their axes set up
AxisInputs(p) ==
    \E dcType \in {"barChart", "compositeChart"}, w \in Sizes, h \in Sizes,
       xa \in {a \in AxisSettings : a.title_text = Null},
       ya \in {a \in AxisSettings : a.title_text = Null},
       xValues \in XValueLists :
        p = Props(dcType, [width |-> w, height |-> h],
                  Series(1, Card("bar", xa, ya),
                         CHOOSE r \in Results : Len(r.cols) = 2 /\ r.firstVal = "text"),
                  <<1>>, <<{0}>>, xValues, AllPresent, FALSE, FALSE)

NoProps ==
    Props("none", [width |-> 0, height |-> 0], <<>>, <<>>, <<>>, <<>>, AllPresent,
          FALSE, FALSE)

MapSettings ==
    [latitude_dataset_col_index : {Null, "0"},
     longitude_dataset_col_index : {Null, "1"},
     latitude_source_table_field_id : {Null, "12"},
     longitude_source_table_field_id : {Null, "13"},
     zoom : {4}, center_latitude : {0}, center_longitude : {0}]

CanvasSizes == {[height |-> None, width |-> None], [height |-> Some(200), width |-> Some(300)]}
Latitudes == {0, 1}
Longitudes == {0, 1}
Zooms == {4, 5}

\* ---------------------------------------------------------- specifications
\* before any CardRenderer call: no chart, nothing done, no callback called
InitChart ==
    /\ canvas = None
    /\ trace = <<>>
    /\ onRenderCalls = <<>>
    /\ hoverCalls = NoHover
    /\ mouse = NoMouse

InitMap == gmaps = NoMaps
InitEditor == editor = [query |-> NewQuery, rendered |-> None]

\* the axis set-up functions applied to a freshly initialised chart
ApplyChartOrdinalXAxis ==
    /\ props.fn \in {"barChart", "compositeChart"}
    /\ canvas[1].x = None
    /\ canvas' = Some(applyChartOrdinalXAxis(canvas[1], props.series[1].card,
                                             props.series[1].data.cols, props.xValues))
    /\ trace' = Append(trace, Step("applyChartOrdinalXAxis", "", ""))
    /\ UNCHANGED <<props, onRenderCalls, hoverCalls, mouse, gmaps, editor>>

ApplyChartYAxis ==
    /\ props.fn \in {"barChart", "compositeChart"}
    /\ \A i \in 1..Len(trace) : trace[i].op # "applyChartYAxis"
    /\ canvas' = Some(applyChartYAxis(canvas[1], props.series[1].card,
                                      props.series[1].data.cols))
    /\ trace' = Append(trace, Step("applyChartYAxis", "", ""))
    /\ UNCHANGED <<props, onRenderCalls, hoverCalls, mouse, gmaps, editor>>

Init == RenderInputs(props) /\ InitChart /\ InitMap /\ InitEditor
Next == Bar \/ Line \/ Area
Spec == Init /\ [][Next]_vars

InitHover == HoverInputs(props) /\ InitChart /\ InitMap /\ InitEditor
NextHover ==
    \/ Bar
    \/ Line
    \/ Area
    \/ Pie
    \/ \E el \in MarkClasses, d \in Data, i \in 0..(Len(props.series) - 1) :
            MouseMove(el, d, i)
    \/ \E el \in MarkClasses : MouseLeave(el)
SpecHover == InitHover /\ [][NextHover]_vars

InitAxis ==
    /\ AxisInputs(props)
    /\ canvas = Some(initializeChart(props.series[1].card, props.element, props.fn))
    /\ trace = <<>>
    /\ onRenderCalls = <<>>
    /\ hoverCalls = NoHover
    /\ mouse = NoMouse
    /\ InitMap /\ InitEditor
NextAxis == ApplyChartOrdinalXAxis \/ ApplyChartYAxis
SpecAxis == InitAxis /\ [][NextAxis]_vars

InitIdle == props = NoProps /\ InitChart /\ InitMap /\ InitEditor
NextMap ==
    \/ \E vsmap \in MapSettings, size \in CanvasSizes : pin_map(vsmap, size)
    \/ \E m \in 1..MaxMaps, lat \in Latitudes, lng \in Longitudes : CenterChanged(m, lat, lng)
    \/ \E m \in 1..MaxMaps, z \in Zooms : ZoomChanged(m, z)
    \/ CardResized
SpecMap == InitIdle /\ [][NextMap]_vars

NextGui ==
    \/ \E a \in Aggregations : Aggregate(a)
    \/ \E f \in OrdersFields : Breakout(f)
    \/ RenderEditor
SpecGui == InitIdle /\ [][NextGui]_vars

\* ------------------------------------------------------------------ claims
LineAreaBarFns == {"bar", "line", "area"}
Returned == trace # <<>> /\ trace[Len(trace)].op = "return"
ChartCall == props.fn \in LineAreaBarFns /\ trace # <<>>
NumCols == Len(props.series[1].data.cols)
NumSeries == Len(props.series)
HasStep(st) == \E i \in 1..Len(trace) : trace[i] = st
Settings == props.series[1].card.visualization_settings

\* the steps of the call named by ops, in the order they were taken
OpsOfTrace(ops) == SelectSeq(trace, LAMBDA st : st.op \in ops)
OpNames(steps) == [i \in 1..Len(steps) |-> steps[i].op]

\* C1: whenever one of the four map settings is null, pin_map throws a
\* 'Map ERROR: ...' string and creates no map.
C1_ThrowsOnAnyMissingSetting ==
    (gmaps.settings # None
     /\ \E name \in MapSettingNames : gmaps.settings[1][name] = Null)
    => gmaps.outcome \in
         {"Map ERROR: latitude and longitude column indices must be specified",
          "Map ERROR: unable to find specified latitude / longitude columns in source table"}

\* C2: a styling step of lineAndBarOnRender whose SVG element is absent lets
\* no exception escape; every step whose element is present still sets its
\* configured attributes, the 'renderlet.lineAndBarOnRender' handler is
\* registered and the chart is rendered again.
C2_StylingIsBestEffort ==
    (ChartCall /\ NumCols >= 2) =>
        /\ ~Threw(trace)
        /\ Returned
        /\ props.svg.xLabel =>
              /\ Settings.xAxis.title_color # Null
                    => HasStep(SetAttribute(".x-axis-label", "fill"))
              /\ Settings.xAxis.title_font_size # Null
                    => HasStep(SetAttribute(".x-axis-label", "font-size"))
        /\ props.svg.yLabel =>
              /\ Settings.yAxis.title_color # Null
                    => HasStep(SetAttribute(".y-axis-label", "fill"))
              /\ Settings.yAxis.title_font_size # Null
                    => HasStep(SetAttribute(".y-axis-label", "font-size"))
        /\ props.svg.vGrid =>
              /\ Settings.xAxis.gridLineWidth # Null
                    => HasStep(SetAttribute(".grid-line.vertical", "stroke-width"))
              /\ Settings.xAxis.gridLineColor # Null
                    => HasStep(SetAttribute(".grid-line.vertical", "style"))
        /\ props.svg.hGrid =>
              /\ Settings.yAxis.gridLineWidth # Null
                    => HasStep(SetAttribute(".grid-line.horizontal", "stroke-width"))
              /\ Settings.yAxis.gridLineColor # Null
                    => HasStep(SetAttribute(".grid-line.horizontal", "style"))
        /\ HasStep(Step("on", "renderlet.lineAndBarOnRender", ""))
        /\ "renderlet.lineAndBarOnRender" \in canvas[1].listeners
        /\ canvas[1].renders = 2

\* a call in which the vertical grid lines are absent and caught while the
\* horizontal ones, present, are styled afterwards
C2_Witness ==
    /\ ChartCall /\ NumCols >= 2
    /\ ~props.svg.vGrid /\ props.svg.hGrid /\ ~props.svg.xLabel
    /\ HasStep(Caught(".grid-line.vertical"))
    /\ HasStep(Caught(".x-axis-label"))
    /\ HasStep(SetAttribute(".grid-line.horizontal", "style"))
    /\ canvas[1].renders = 2

OrderedOps == {"render", "lineAndBarOnRender", "onRender", "return"}

\* C3 as stated: a call with at least 2 columns performs render, then
\* lineAndBarOnRender ending in a second render, then exactly one onRender
\* with {yAxisSplit}, all before it returns.
C3_ExactlyOneOnRender ==
    (ChartCall /\ NumCols >= 2) =>
        /\ OpNames(OpsOfTrace(OrderedOps))
             = <<"render", "lineAndBarOnRender", "render", "onRender", "return">>
        /\ onRenderCalls = <<props.yAxisSplit>>

\* C3 amended: a call with at least 2 columns performs, in order and before
\* it returns, render, lineAndBarOnRender ending in a second render, and then
\* one onRender with {yAxisSplit} when onRender is supplied, none otherwise;
\* onRender never precedes a render.
C3_RenderThenOnRenderIfSupplied ==
    (ChartCall /\ NumCols >= 2) =>
        /\ OpNames(OpsOfTrace(OrderedOps))
             = <<"render", "lineAndBarOnRender", "render">>
               \o (IF props.onRender THEN <<"onRender">> ELSE <<>>)
               \o <<"return">>
        /\ onRenderCalls = IF props.onRender THEN <<props.yAxisSplit>> ELSE <<>>
        /\ canvas[1].renders = 2

C3_Witness ==
    /\ ChartCall /\ NumCols >= 2 /\ props.onRender
    /\ Len(props.yAxisSplit) = 2
    /\ onRenderCalls = <<props.yAxisSplit>>
    /\ Returned

\* C4: for a query with a count aggregation GuiQueryEditor renders exactly
\* three 'add' controls, with the 'Add a grouping' placeholder when there is no
\* breakout and with the breakout's field name and exactly one 'close' control
\* when there is one breakout.
C4_CanAlwaysAddBreakout ==
    (editor.rendered # None
     /\ editor.query.aggregations = <<"count">>
     /\ Len(editor.query.breakouts) <= 1) =>
        LET r == editor.rendered[1]
        IN  /\ r.addIcons = 3
            /\ editor.query.breakouts = <<>>
                  => "Add a grouping" \in r.texts /\ r.closeIcons = 0
            /\ Len(editor.query.breakouts) = 1
                  => editor.query.breakouts[1] \in r.texts /\ r.closeIcons = 1

C4_Witness ==
    /\ editor.rendered # None
    /\ editor.query.aggregations = <<"count">>
    /\ editor.query.breakouts = <<"Total">>
    /\ editor.rendered[1].addIcons = 3

\* C5: with onHoverChange supplied every mousemove and every mouseleave on a
\* mark makes exactly one onHoverChange call, a mousemove passing the element,
\* datum and series index, and the latest call carries a null element iff the
\* last event was a mouseleave or, in lineAreaBar, a mousemove over a 'line'
\* element; without onHoverChange nothing is called.
C5_HoverFollowsMouse ==
    /\ hoverCalls.count = IF props.onHoverChange THEN mouse.count ELSE 0
    /\ (props.onHoverChange /\ mouse.last # None) =>
          LET ev == mouse.last[1]
              call == hoverCalls.last[1]
              onLine == /\ props.fn \in LineAreaBarFns
                        /\ ev.type = "mousemove" /\ ev.el = "line"
          IN  /\ (call.e = Null) <=> (ev.type = "mouseleave" \/ onLine)
              /\ (ev.type = "mousemove" /\ ~onLine) => call.e = ev.el
              /\ ev.type = "mousemove"
                    => call.d = ev.d /\ call.seriesIndex = ev.seriesIndex

C5_Witness ==
    /\ props.fn = "line" /\ props.onHoverChange
    /\ mouse.count = 3 /\ hoverCalls.count = 3
    /\ mouse.last[1].type = "mousemove" /\ mouse.last[1].el = "line"
    /\ hoverCalls.last[1].e = Null

\* size / n >= minPixelsPerTick, with a division by zero taken as satisfying it
PixelsPerTickAtLeast(size, n, minPixelsPerTick) ==
    n = 0 \/ size >= minPixelsPerTick * n

Applied(fn) == \E i \in 1..Len(trace) : trace[i].op = fn
InitialAxis == NewAxis

\* C6: after the ticks of an axis are adjusted, axisSize / n is at least the
\* minimum of pixels per tick (100 on x, 30 on y), and the tick count is
\* unchanged when it satisfied that bound already.
C6_TickDensityLimited ==
    /\ (Applied("applyChartYAxis") /\ Settings.yAxis.labels_enabled) =>
          /\ PixelsPerTickAtLeast(canvas[1].height, NumTicks(canvas[1].yAxis),
                                   MIN_PIXELS_PER_TICK.y)
          /\ PixelsPerTickAtLeast(canvas[1].height, NumTicks(InitialAxis),
                                   MIN_PIXELS_PER_TICK.y)
                => canvas[1].yAxis.ticks = InitialAxis.ticks
    /\ (Applied("applyChartOrdinalXAxis") /\ Settings.xAxis.labels_enabled) =>
          PixelsPerTickAtLeast(canvas[1].width, NumTicks(canvas[1].xAxis),
                               MIN_PIXELS_PER_TICK.x)

\* the x values at the 0-based indices that are multiples of k
AtMultiplesOf(xValues, k) ==
    SelectSeq(xValues, LAMBDA v :
        \E i \in 1..Len(xValues) : xValues[i] = v /\ (i - 1) % k = 0)

\* C7: with x labels enabled, when the adjusted tick count n is below the
\* number of x values the displayed tick values are the x values at the
\* multiples of round(len / n), include the first x value and are at most n;
\* otherwise every x value is labelled.
C7_AtMostNLabels ==
    (Applied("applyChartOrdinalXAxis") /\ Settings.xAxis.labels_enabled) =>
        LET n == NumTicks(canvas[1].xAxis)
            len == Len(props.xValues)
            shown == DisplayedTicks(canvas[1])
        IN  IF n < len
            THEN /\ n > 0 => shown = AtMultiplesOf(props.xValues, MathRound(len, n))
                 /\ shown # <<>> /\ shown[1] = props.xValues[1]
                 /\ Len(shown) <= n
            ELSE shown = props.xValues

C9_ChartStructure ==
    (ChartCall /\ NumCols >= 2) =>
        LET c == canvas[1]
        IN  IF props.fn = "area" \/ NumSeries = 1
            THEN /\ c.dcType \in {"lineChart", "barChart"}
                 /\ c.children = <<>>
                 /\ c.group = Some(0)
                 /\ c.stack = [i \in 1..(NumSeries - 1) |-> i]
            ELSE /\ c.dcType = "compositeChart"
                 /\ Len(c.children) = NumSeries
                 /\ \A i \in 0..(NumSeries - 1) :
                      /\ c.children[i + 1].group = Some(i)
                      /\ c.children[i + 1].colors
                           = Some(props.colors[(i % Len(props.colors)) + 1])
                      /\ c.children[i + 1].useRightYAxis
                           <=> (Len(props.yAxisSplit) > 1 /\ i \in props.yAxisSplit[2])

\* a composite chart of three series on two colours, the last on the right axis
C9_Witness ==
    /\ ChartCall /\ NumCols >= 2 /\ props.fn = "bar"
    /\ NumSeries = 3 /\ Len(props.colors) = 2
    /\ canvas[1].dcType = "compositeChart"
    /\ canvas[1].children[3].useRightYAxis
    /\ ~canvas[1].children[1].useRightYAxis
    /\ canvas[1].children[3].colors = canvas[1].children[1].colors

\* C10: every center_changed calls updateMapCenter with the map's current
\* latitude and longitude, every zoom_changed calls updateMapZoom with the
\* map's current zoom, every map has had 'resize' triggered once in the call
\* that created it and once more for every later 'cardrenderer-card-resized'.
C10_MapEventsPropagate ==
    /\ gmaps.updateMapCenter.count = gmaps.fired.center_changed
    /\ gmaps.updateMapZoom.count = gmaps.fired.zoom_changed
    /\ \A m \in 1..Len(gmaps.maps) :
          /\ gmaps.maps[m].resizes >= 1 + gmaps.maps[m].cardResizedSince
          /\ (gmaps.lastEvent # None /\ gmaps.lastEvent[1].map = m) =>
                /\ gmaps.lastEvent[1].type = "center_changed"
                      => gmaps.updateMapCenter.last = Some(gmaps.maps[m].center)
                /\ gmaps.lastEvent[1].type = "zoom_changed"
                      => gmaps.updateMapZoom.last = Some(gmaps.maps[m].zoom)

C10_Witness ==
    /\ Len(gmaps.maps) = 2
    /\ gmaps.maps[1].cardResizedSince = 2 /\ gmaps.maps[1].resizes = 3
    /\ gmaps.lastEvent # None /\ gmaps.lastEvent[1].type = "center_changed"
    /\ gmaps.updateMapCenter.count = 1
====
